---- MODULE Spec2Model ----
(***************************************************************************)
(* Model of the scripts of packages/infra/scripts/python.                  *)
(*                                                                         *)
(* Spec, FairSpec: connet-efs.py, the script that brings the EFS           *)
(* management EC2 instance up, waits for SSM connectivity and hands over   *)
(* to an interactive SSM session.  A run starts with the imports of the    *)
(* script (lines 7-13); main() is entered only when they succeed.          *)
(* ParseSpec: parse_secrets_arn of build-capacity-env.py applied to a      *)
(* valueFrom string.                                                       *)
(* EnvSpec: build_env_file of build-capacity-env.py, from the overwrite    *)
(* prompt to the footer of the .env file.                                  *)
(*                                                                         *)
(* The scripts are separate processes: each specification runs one of      *)
(* them and leaves the variables of the others at rest.                    *)
(*                                                                         *)
(* A text (the stdout of a command, a Python str) is a sequence of tokens: *)
(* a token is either a whitespace character (" ", "\n") or a maximal run   *)
(* of non-whitespace characters.  The Python literal "running" is the text *)
(* <<"running">>, the empty string is <<>>.                                *)
(*                                                                         *)
(* The result of subprocess.run(..., check=True) is a record               *)
(* [rc |-> return code, out |-> stdout text]; rc # 0 is the case where     *)
(* subprocess.CalledProcessError is raised.                                *)
(***************************************************************************)
EXTENDS Integers, Sequences, FiniteSets, TLC

VARIABLES
    pc,             \* position of the process: the imports, then main()
    utils_names,    \* the names the module found as "utils" defines
    argv,           \* sys.argv[1:]
    exit_code,      \* -1 while the process runs, else its exit status
    last_error,     \* what ended the process: the log_error call before
                    \* sys.exit(1) or the uncaught exception ("none" if none)
    ec2_instance_id,\* main(): second field of the connection info
    current_state,  \* start_instance_if_needed(): local current_state
    first_state,    \* value returned by the query at line 69
    attempt,        \* loop variable of the for-loop at line 93
    power_queries,  \* calls of get_instance_state made so far
    wait_queries,   \* of these, the calls made at line 94 (wait phase)
    start_cmds,     \* "aws ec2 start-instances" commands issued so far
    start_result,   \* outcome of the start command: "none", "ok" or "error"
    issued,         \* the kinds of external command run so far
    power_sleeps,   \* time.sleep(10) calls at line 100
    ssm_queries,    \* calls of check_ssm_managed made so far
    ssm_sleeps,     \* time.sleep(10) calls at line 120
    ssm_seen,       \* last value returned by check_ssm_managed
    ssm_attempt,    \* loop variable of the for-loop of wait_for_ssm
    power_clock,    \* seconds slept in start_instance_if_needed
    ssm_clock,      \* seconds slept in wait_for_ssm
    session,        \* TRUE once os.execvp replaced the process by the session
    last_rc,        \* return code of the latest status query, -1 before any
    failed_in,      \* where a status query failed: "initial", "wait", "ssm"
    \* build-capacity-env.py, parse_secrets_arn
    value_from,     \* the argument value_from
    parsed,         \* the returned pair, NotParsed before the call
    \* build-capacity-env.py, build_env_file
    env_pc,         \* position in build_env_file
    env_exit,       \* -1 while the script runs, else the status of sys.exit
    env_error,      \* which log_error call preceded the exit ("none" if none)
    existed,        \* os.path.exists(output_file) when the script started
    out_content,    \* text of the output file (<<>> while it does not exist)
    response,       \* the answer typed at the overwrite prompt
    dir_state,      \* output directory: "none" (no directory part),
                    \* "exists" or "missing"
    dir_created,    \* os.makedirs has been called
    task_def,       \* task_def_json, by its container definitions
    sec_idx,        \* index of the next entry of secrets
    written,        \* for each entry of secrets handled, the text written
    fetches         \* calls of get_secret_value made so far

vars == <<pc, utils_names, argv, exit_code, last_error, ec2_instance_id, current_state,
          first_state, attempt, power_queries, wait_queries, start_cmds,
          start_result, issued, power_sleeps, ssm_queries, ssm_sleeps,
          ssm_seen, ssm_attempt, power_clock, ssm_clock, session, last_rc,
          failed_in>>

parseVars == <<value_from, parsed>>

envVars == <<env_pc, env_exit, env_error, existed, out_content, response,
             dir_state, dir_created, task_def, sec_idx, written, fetches>>

\* the variables of the scripts other than connet-efs.py
otherVars == <<parseVars, envVars>>

----------------------------------------------------------------------------
(* Texts *)

WS == {" ", "\n"}

RECURSIVE lstrip(_)
lstrip(t) == IF t # <<>> /\ Head(t) \in WS THEN lstrip(Tail(t)) ELSE t

RECURSIVE rstrip(_)
rstrip(t) ==
    IF t # <<>> /\ t[Len(t)] \in WS THEN rstrip(SubSeq(t, 1, Len(t) - 1)) ELSE t

\* str.strip()
strip(t) == rstrip(lstrip(t))

\* str.split() without arguments: the non-whitespace runs, in order
split(t) == SelectSeq(t, LAMBDA c : c \notin WS)

NoText == <<"<unset>">>

\* Python's None, a value no text is equal to
None == <<"<None>">>

\* value of parsed before parse_secrets_arn has been called
NotParsed == <<"<not called>">>

----------------------------------------------------------------------------
(* Program constants *)

StartPollBudget == 30
SsmPollBudget == 30
StartPollDelay == 10
SsmPollDelay == 10

----------------------------------------------------------------------------
(* What the external commands can answer *)

\* State.Name values of EC2, an empty answer and the "None" the CLI prints
\* for a missing field
StateNames == {"running", "stopped", "pending", "stopping",
               "shutting-down", "terminated", "None"}

DescribeInstancesResults ==
    {[rc |-> 0, out |-> <<n, "\n">>] : n \in StateNames}
        \cup {[rc |-> 0, out |-> <<>>], [rc |-> 255, out |-> <<>>]}

PingStatusNames == {"Online", "ConnectionLost", "Inactive", "None"}

DescribeInstanceInformationResults ==
    {[rc |-> 0, out |-> <<n, "\n">>] : n \in PingStatusNames}
        \cup {[rc |-> 255, out |-> <<>>]}

ReturnCodes == {0, 255}

\* stdout of get-efs-target.py: "<transfer_bucket_name> <ec2_instance_id>"
EfsTargetResults ==
    {[rc |-> 0, out |-> <<"transfer-bucket", " ", "i-0abc", "\n">>],
     [rc |-> 0, out |-> <<"i-0abc", "\n">>],
     [rc |-> 0, out |-> <<"transfer-bucket", " ", "i-0abc", " ", "extra", "\n">>],
     [rc |-> 0, out |-> <<>>],
     [rc |-> 1, out |-> <<>>]}

\* "aws --version": runs, exits non-zero, or the executable is missing
VersionResults == {"ok", "error", "not_found"}

\* stdout of describe-instances --output json, by what json.loads makes of it
DetailsResults == {"object", "empty_object", "null", "invalid_json", "error"}

Argvs == {<<>>, <<"-h">>, <<"--help">>, <<"my-efs-stack">>}

\* utils.py: the names the module defines
UtilsNames == {"Colors", "log", "log_info", "log_warn", "log_error"}

\* connet-efs.py, line 13: from utils import log_info, log_error, log_blue
ImportedNames == {"log_info", "log_error", "log_blue"}

\* The module the import of line 13 can find: utils.py as it stands beside
\* the script, or that module with log_blue added, which is what a caller
\* of the script's functions has to provide for them to be loaded at all
UtilsModules == {UtilsNames, UtilsNames \cup {"log_blue"}}

----------------------------------------------------------------------------
(* Pure functions of connet-efs.py *)

RUNNING == <<"running">>
STOPPED == <<"stopped">>
PENDING == <<"pending">>
STOPPING == <<"stopping">>
UNKNOWN == <<"unknown">>

\* get_instance_state: the stripped stdout, "unknown" when the command fails
get_instance_state(res) == IF res.rc = 0 THEN strip(res.out) ELSE UNKNOWN

\* check_ssm_managed: PingStatus is "Online", False when the command fails
check_ssm_managed(res) == IF res.rc = 0 THEN strip(res.out) = <<"Online">> ELSE FALSE

\* Mutation of IsRunning: "pending" is taken for "running"
IsRunning_PendingToo(s) == s \in {RUNNING, PENDING}

\* line 72
IsRunning(s) == s = RUNNING

\* Mutation of NeedsStart: the literal is misspelt, nothing is ever started
NeedsStart_Misspelt(s) == s = <<"stop">>

\* Mutation of NeedsStart: a stopping instance is started as well
NeedsStart_StoppingToo(s) == s \in {STOPPED, STOPPING}

\* line 76
NeedsStart(s) == s = STOPPED

\* Mutation of EntersWait: every state but "running" is waited on
EntersWait_AnyNotRunning(s) == s # RUNNING

\* line 87
EntersWait(s) == s \in {STOPPED, PENDING, STOPPING}

\* line 105
IsUnexpected(s) == s \notin {RUNNING, STOPPED, PENDING, STOPPING}

----------------------------------------------------------------------------
(* The process *)

\* parse_secrets_arn is not being run
ParseIdle ==
    /\ value_from = None
    /\ parsed = NotParsed

\* build_env_file is not being run
EnvIdle ==
    /\ env_pc = "idle"
    /\ env_exit = -1
    /\ env_error = "none"
    /\ existed = FALSE
    /\ out_content = <<>>
    /\ response = "<none>"
    /\ dir_state = "none"
    /\ dir_created = FALSE
    /\ task_def = [containers |-> "missing"]
    /\ sec_idx = 1
    /\ written = <<>>
    /\ fetches = 0

Init ==
    /\ ParseIdle
    /\ EnvIdle
    /\ pc = "import"
    /\ utils_names \in UtilsModules
    /\ argv \in Argvs
    /\ exit_code = -1
    /\ last_error = "none"
    /\ ec2_instance_id = NoText
    /\ current_state = NoText
    /\ first_state = NoText
    /\ attempt = 0
    /\ power_queries = 0
    /\ wait_queries = 0
    /\ start_cmds = 0
    /\ start_result = "none"
    /\ issued = {}
    /\ power_sleeps = 0
    /\ ssm_queries = 0
    /\ ssm_sleeps = 0
    /\ ssm_seen = FALSE
    /\ ssm_attempt = 0
    /\ power_clock = 0
    /\ ssm_clock = 0
    /\ session = FALSE
    /\ last_rc = -1
    /\ failed_in = {}

\* Mutation of Fatal: the error is logged and the process exits with 0
Fatal_ExitZero(msg) ==
    /\ pc' = "exited"
    /\ exit_code' = 0
    /\ last_error' = msg

\* log_error(msg); sys.exit(1)
Fatal(msg) ==
    /\ pc' = "exited"
    /\ exit_code' = 1
    /\ last_error' = msg

Goto(l) ==
    /\ pc' = l
    /\ UNCHANGED <<exit_code, last_error>>

ensureVars == <<current_state, first_state, attempt, power_queries,
                wait_queries, start_cmds, start_result, power_sleeps,
                power_clock>>
ssmVars == <<ssm_queries, ssm_sleeps, ssm_seen, ssm_attempt, ssm_clock>>

\* The imports, lines 7-13, and the call of main() at lines 288-289: a name
\* utils does not define raises ImportError, which nothing catches; the
\* interpreter prints the traceback and exits with status 1
Import ==
    /\ pc = "import"
    /\ IF ImportedNames \subseteq utils_names
       THEN Goto("main")
       ELSE /\ pc' = "exited"
            /\ exit_code' = 1
            /\ last_error' = "ImportError"
    /\ UNCHANGED <<otherVars, utils_names, argv, last_rc, failed_in, ec2_instance_id, ensureVars, issued, ssmVars, session>>

\* main(), lines 244-251: argument parsing
Main ==
    /\ pc = "main"
    /\ IF Len(argv) > 0 /\ argv[1] \in {"-h", "--help"}
       THEN /\ pc' = "exited"
            /\ exit_code' = 0
            /\ UNCHANGED last_error
       ELSE Goto("validate_requirements")
    /\ UNCHANGED <<otherVars, utils_names, argv, last_rc, failed_in, ec2_instance_id, ensureVars, issued, ssmVars, session>>

\* validate_requirements()
validate_requirements ==
    /\ pc = "validate_requirements"
    /\ \E v \in VersionResults, sts \in ReturnCodes :
         IF v # "ok"
         THEN /\ Fatal("command_not_found")
              /\ issued' = issued \cup {"aws --version"}
         ELSE /\ issued' = issued \cup {"aws --version", "sts get-caller-identity"}
              /\ IF sts # 0
                 THEN Fatal("aws_not_configured")
                 ELSE Goto("get_efs_connection_info")
    /\ UNCHANGED <<otherVars, utils_names, argv, last_rc, failed_in, ec2_instance_id, ensureVars, ssmVars, session>>

\* get_efs_connection_info() and main(), lines 257-272
get_efs_connection_info ==
    /\ pc = "get_efs_connection_info"
    /\ \E exists \in BOOLEAN, res \in EfsTargetResults :
         IF ~exists
         THEN /\ Fatal("script_not_found")
              /\ UNCHANGED <<issued, ec2_instance_id>>
         ELSE /\ issued' = issued \cup {"get-efs-target.py"}
              /\ IF res.rc # 0
                 THEN /\ Fatal("efs_info_failed")
                      /\ UNCHANGED ec2_instance_id
                 ELSE LET parts == split(strip(strip(res.out))) IN
                      IF Len(parts) # 2
                      THEN /\ Fatal("efs_info_unparsable")
                           /\ UNCHANGED ec2_instance_id
                      ELSE /\ ec2_instance_id' = <<parts[2]>>
                           /\ Goto("get_instance_details")
    /\ UNCHANGED <<otherVars, utils_names, argv, last_rc, failed_in, ensureVars, ssmVars, session>>

\* get_instance_details()
get_instance_details ==
    /\ pc = "get_instance_details"
    /\ issued' = issued \cup {"ec2 describe-instances"}
    /\ \E d \in DetailsResults :
         CASE d \in {"error", "invalid_json"} -> Fatal("details_failed")
           [] d \in {"null", "empty_object"} -> Fatal("no_details")
           [] OTHER -> Goto("start_instance_if_needed")
    /\ UNCHANGED <<otherVars, utils_names, argv, last_rc, failed_in, ec2_instance_id, ensureVars, ssmVars, session>>

\* Mutation of InitialQuery: no early return, a running instance is polled
InitialQuery_NoEarlyReturn ==
    /\ pc = "start_instance_if_needed"
    /\ \E res \in DescribeInstancesResults :
         LET s == get_instance_state(res) IN
         /\ current_state' = s
         /\ last_rc' = res.rc
         /\ failed_in' = IF res.rc # 0 THEN failed_in \cup {"initial"} ELSE failed_in
         /\ first_state' = s
         /\ IF NeedsStart(s) THEN Goto("start_instances")
            ELSE IF EntersWait(s) \/ IsRunning(s) THEN Goto("poll_state")
            ELSE Fatal("unexpected_state")
    /\ power_queries' = power_queries + 1
    /\ issued' = issued \cup {"ec2 describe-instances"}
    /\ attempt' = 0
    /\ UNCHANGED <<otherVars, utils_names, argv, ec2_instance_id, wait_queries, start_cmds,
                   start_result, power_sleeps, power_clock, ssmVars, session>>

\* start_instance_if_needed(), lines 69-76 and 87-91, 105-107: the first
\* query and the branch on it
InitialQuery ==
    /\ pc = "start_instance_if_needed"
    /\ \E res \in DescribeInstancesResults :
         LET s == get_instance_state(res) IN
         /\ current_state' = s
         /\ last_rc' = res.rc
         /\ failed_in' = IF res.rc # 0 THEN failed_in \cup {"initial"} ELSE failed_in
         /\ first_state' = s
         /\ IF IsRunning(s) THEN Goto("wait_for_ssm")
            ELSE IF NeedsStart(s) THEN Goto("start_instances")
            ELSE IF EntersWait(s) THEN Goto("poll_state")
            ELSE IF IsUnexpected(s) THEN Fatal("unexpected_state")
            ELSE Goto("wait_for_ssm")
    /\ power_queries' = power_queries + 1
    /\ issued' = issued \cup {"ec2 describe-instances"}
    /\ attempt' = 0
    /\ UNCHANGED <<otherVars, utils_names, argv, ec2_instance_id, wait_queries, start_cmds,
                   start_result, power_sleeps, power_clock, ssmVars, session>>

\* Mutation of StartInstances: a failed start command is not fatal
StartInstances_ErrorIgnored ==
    /\ pc = "start_instances"
    /\ start_cmds' = start_cmds + 1
    /\ issued' = issued \cup {"ec2 start-instances"}
    /\ \E rc \in ReturnCodes :
         /\ start_result' = IF rc = 0 THEN "ok" ELSE "error"
         /\ Goto("poll_state")
    /\ UNCHANGED <<otherVars, utils_names, argv, last_rc, failed_in, ec2_instance_id, current_state, first_state, attempt,
                   power_queries, wait_queries, power_sleeps, power_clock,
                   ssmVars, session>>

\* start_instance_if_needed(), lines 77-91: the start command
StartInstances ==
    /\ pc = "start_instances"
    /\ start_cmds' = start_cmds + 1
    /\ issued' = issued \cup {"ec2 start-instances"}
    /\ \E rc \in ReturnCodes :
         /\ start_result' = IF rc = 0 THEN "ok" ELSE "error"
         /\ IF rc # 0 THEN Fatal("start_failed")
            ELSE IF EntersWait(current_state) THEN Goto("poll_state")
            ELSE IF IsUnexpected(current_state) THEN Fatal("unexpected_state")
            ELSE Goto("wait_for_ssm")
    /\ UNCHANGED <<otherVars, utils_names, argv, last_rc, failed_in, ec2_instance_id, current_state, first_state, attempt,
                   power_queries, wait_queries, power_sleeps, power_clock,
                   ssmVars, session>>

\* Mutation of PollState: a failed query in the loop ends the process
PollState_ErrorIsFatal ==
    /\ pc = "poll_state"
    /\ attempt < StartPollBudget
    /\ \E res \in DescribeInstancesResults :
         LET s == get_instance_state(res) IN
         /\ current_state' = s
         /\ last_rc' = res.rc
         /\ failed_in' = IF res.rc # 0 THEN failed_in \cup {"wait"} ELSE failed_in
         /\ IF IsRunning(s) THEN Goto("wait_for_ssm")
            ELSE IF s = UNKNOWN THEN Fatal("unexpected_state")
            ELSE Goto("poll_sleep")
    /\ power_queries' = power_queries + 1
    /\ wait_queries' = wait_queries + 1
    /\ issued' = issued \cup {"ec2 describe-instances"}
    /\ UNCHANGED <<otherVars, utils_names, argv, ec2_instance_id, first_state, attempt, start_cmds,
                   start_result, power_sleeps, power_clock, ssmVars, session>>

\* Mutation of PollState: an instance seen stopped in the loop is started
PollState_StartsStopped ==
    /\ pc = "poll_state"
    /\ attempt < StartPollBudget
    /\ \E res \in DescribeInstancesResults :
         LET s == get_instance_state(res) IN
         /\ current_state' = s
         /\ last_rc' = res.rc
         /\ failed_in' = IF res.rc # 0 THEN failed_in \cup {"wait"} ELSE failed_in
         /\ start_cmds' = IF s = STOPPED THEN start_cmds + 1 ELSE start_cmds
         /\ IF IsRunning(s) THEN Goto("wait_for_ssm") ELSE Goto("poll_sleep")
    /\ power_queries' = power_queries + 1
    /\ wait_queries' = wait_queries + 1
    /\ issued' = issued \cup {"ec2 describe-instances", "ec2 start-instances"}
    /\ UNCHANGED <<otherVars, utils_names, argv, ec2_instance_id, first_state, attempt,
                   start_result, power_sleeps, power_clock, ssmVars, session>>

\* Mutation of PollState: the sleep comes before the test for "running"
PollState_SleepBeforeTest ==
    /\ pc = "poll_state"
    /\ attempt < StartPollBudget
    /\ \E res \in DescribeInstancesResults :
         LET s == get_instance_state(res) IN
         /\ current_state' = s
         /\ last_rc' = res.rc
         /\ failed_in' = IF res.rc # 0 THEN failed_in \cup {"wait"} ELSE failed_in
         /\ IF IsRunning(s) THEN Goto("wait_for_ssm")
            ELSE IF attempt + 1 < StartPollBudget THEN Goto("poll_state")
            ELSE Fatal("start_timeout")
         /\ attempt' = IF ~IsRunning(s) /\ attempt + 1 < StartPollBudget
                       THEN attempt + 1 ELSE attempt
    /\ power_queries' = power_queries + 1
    /\ wait_queries' = wait_queries + 1
    /\ power_sleeps' = power_sleeps + 1
    /\ power_clock' = power_clock + StartPollDelay
    /\ issued' = issued \cup {"ec2 describe-instances"}
    /\ UNCHANGED <<otherVars, utils_names, argv, ec2_instance_id, first_state, start_cmds,
                   start_result, ssmVars, session>>

\* start_instance_if_needed(), lines 93-99: one query of the wait loop
PollState ==
    /\ pc = "poll_state"
    /\ attempt < StartPollBudget
    /\ \E res \in DescribeInstancesResults :
         LET s == get_instance_state(res) IN
         /\ current_state' = s
         /\ last_rc' = res.rc
         /\ failed_in' = IF res.rc # 0 THEN failed_in \cup {"wait"} ELSE failed_in
         /\ IF IsRunning(s) THEN Goto("wait_for_ssm") ELSE Goto("poll_sleep")
    /\ power_queries' = power_queries + 1
    /\ wait_queries' = wait_queries + 1
    /\ issued' = issued \cup {"ec2 describe-instances"}
    /\ UNCHANGED <<otherVars, utils_names, argv, ec2_instance_id, first_state, attempt, start_cmds,
                   start_result, power_sleeps, power_clock, ssmVars, session>>

\* Mutation of PollSleep: the delay grows with the attempt (linear backoff)
PollSleep_Backoff ==
    /\ pc = "poll_sleep"
    /\ power_sleeps' = power_sleeps + 1
    /\ power_clock' = power_clock + StartPollDelay * (attempt + 1)
    /\ IF attempt + 1 < StartPollBudget
       THEN /\ attempt' = attempt + 1
            /\ Goto("poll_state")
       ELSE /\ attempt' = attempt
            /\ Fatal("start_timeout")
    /\ UNCHANGED <<otherVars, utils_names, argv, last_rc, failed_in, ec2_instance_id, current_state, first_state,
                   power_queries, wait_queries, start_cmds, start_result,
                   issued, ssmVars, session>>

\* Mutation of PollSleep: the loop runs one iteration too many
PollSleep_OneMore ==
    /\ pc = "poll_sleep"
    /\ power_sleeps' = power_sleeps + 1
    /\ power_clock' = power_clock + StartPollDelay
    /\ IF attempt + 1 <= StartPollBudget
       THEN /\ attempt' = attempt + 1
            /\ Goto("poll_state")
       ELSE /\ attempt' = attempt
            /\ Fatal("start_timeout")
    /\ UNCHANGED <<otherVars, utils_names, argv, last_rc, failed_in, ec2_instance_id, current_state, first_state,
                   power_queries, wait_queries, start_cmds, start_result,
                   issued, ssmVars, session>>

\* start_instance_if_needed(), lines 100-103: the sleep that ends an
\* iteration, and the timeout when it was the last one
PollSleep ==
    /\ pc = "poll_sleep"
    /\ power_sleeps' = power_sleeps + 1
    /\ power_clock' = power_clock + StartPollDelay
    /\ IF attempt + 1 < StartPollBudget
       THEN /\ attempt' = attempt + 1
            /\ Goto("poll_state")
       ELSE /\ attempt' = attempt
            /\ Fatal("start_timeout")
    /\ UNCHANGED <<otherVars, utils_names, argv, last_rc, failed_in, ec2_instance_id, current_state, first_state,
                   power_queries, wait_queries, start_cmds, start_result,
                   issued, ssmVars, session>>

\* wait_for_ssm(), lines 114-117: one query of the loop
CheckSsm ==
    /\ pc = "wait_for_ssm"
    /\ ssm_attempt < SsmPollBudget
    /\ \E res \in DescribeInstanceInformationResults :
         LET ok == check_ssm_managed(res) IN
         /\ ssm_seen' = ok
         /\ last_rc' = res.rc
         /\ failed_in' = IF res.rc # 0 THEN failed_in \cup {"ssm"} ELSE failed_in
         /\ IF ok THEN Goto("start_interactive_session") ELSE Goto("ssm_sleep")
    /\ ssm_queries' = ssm_queries + 1
    /\ issued' = issued \cup {"ssm describe-instance-information"}
    /\ UNCHANGED <<otherVars, utils_names, argv, ec2_instance_id, ensureVars, ssm_sleeps, ssm_attempt,
                   ssm_clock, session>>

\* Mutation of SsmSleep: the loop gives up one iteration early
SsmSleep_OneLess ==
    /\ pc = "ssm_sleep"
    /\ ssm_sleeps' = ssm_sleeps + 1
    /\ ssm_clock' = ssm_clock + SsmPollDelay
    /\ IF ssm_attempt + 2 < SsmPollBudget
       THEN /\ ssm_attempt' = ssm_attempt + 1
            /\ Goto("wait_for_ssm")
       ELSE /\ ssm_attempt' = ssm_attempt
            /\ Fatal("ssm_timeout")
    /\ UNCHANGED <<otherVars, utils_names, argv, last_rc, failed_in, ec2_instance_id, ensureVars, issued, ssm_queries,
                   ssm_seen, session>>

\* wait_for_ssm(), lines 119-123
SsmSleep ==
    /\ pc = "ssm_sleep"
    /\ ssm_sleeps' = ssm_sleeps + 1
    /\ ssm_clock' = ssm_clock + SsmPollDelay
    /\ IF ssm_attempt + 1 < SsmPollBudget
       THEN /\ ssm_attempt' = ssm_attempt + 1
            /\ Goto("wait_for_ssm")
       ELSE /\ ssm_attempt' = ssm_attempt
            /\ Fatal("ssm_timeout")
    /\ UNCHANGED <<otherVars, utils_names, argv, last_rc, failed_in, ec2_instance_id, ensureVars, issued, ssm_queries,
                   ssm_seen, session>>

\* start_interactive_session(): os.execvp either replaces the process or
\* raises OSError
start_interactive_session ==
    /\ pc = "start_interactive_session"
    /\ issued' = issued \cup {"ssm start-session"}
    /\ \E ok \in BOOLEAN :
         IF ok
         THEN /\ session' = TRUE
              /\ Goto("session")
         ELSE /\ session' = FALSE
              /\ Fatal("session_failed")
    /\ UNCHANGED <<otherVars, utils_names, argv, last_rc, failed_in, ec2_instance_id, ensureVars, ssmVars>>

Next ==
    \/ Import
    \/ Main
    \/ validate_requirements
    \/ get_efs_connection_info
    \/ get_instance_details
    \/ InitialQuery
    \/ StartInstances
    \/ PollState
    \/ PollSleep
    \/ CheckSsm
    \/ SsmSleep
    \/ start_interactive_session

Spec == Init /\ [][Next]_vars

\* The same process when every external call returns: a step that can be
\* taken is eventually taken
FairSpec == Init /\ [][Next]_vars /\ WF_vars(Next)

TypeOK ==
    /\ utils_names \in UtilsModules
    /\ pc \in {"import", "main", "validate_requirements",
               "get_efs_connection_info",
               "get_instance_details", "start_instance_if_needed",
               "start_instances", "poll_state", "poll_sleep", "wait_for_ssm",
               "ssm_sleep", "start_interactive_session", "session", "exited"}
    /\ exit_code \in {-1, 0, 1}
    /\ attempt \in 0..(StartPollBudget - 1)
    /\ ssm_attempt \in 0..(SsmPollBudget - 1)
    /\ start_result \in {"none", "ok", "error"}
    /\ last_rc \in {-1} \cup ReturnCodes
    /\ failed_in \subseteq {"initial", "wait", "ssm"}
    /\ power_queries \in 0..(StartPollBudget + 1)
    /\ ssm_queries \in 0..SsmPollBudget

----------------------------------------------------------------------------
(* Where the process stands with respect to the two phases *)

\* start_instance_if_needed has returned to main()
EnsureSucceeded ==
    \/ pc \in {"wait_for_ssm", "ssm_sleep", "start_interactive_session", "session"}
    \/ pc = "exited" /\ last_error \in {"ssm_timeout", "session_failed"}

\* start_instance_if_needed has ended the process
EnsureFailed ==
    pc = "exited" /\ last_error \in {"unexpected_state", "start_failed", "start_timeout"}

EnsureDone == EnsureSucceeded \/ EnsureFailed

\* the first query of start_instance_if_needed has been made
Queried == first_state # NoText

\* wait_for_ssm or anything after it has been reached
SsmPhaseBegun == EnsureSucceeded

----------------------------------------------------------------------------
(* C1 *)

\* C1: when the first power-state query returns "running",
\* start_instance_if_needed returns at once: no start command, no sleep and
\* no power-state query other than the first is ever made.
C1_RunningIsNoOp ==
    first_state = <<"running">> =>
        /\ EnsureSucceeded
        /\ start_cmds = 0
        /\ start_result = "none"
        /\ power_sleeps = 0
        /\ power_queries = 1
        /\ wait_queries = 0

C1_Witness ==
    first_state = <<"running">> /\ pc = "session" /\ power_queries = 1

----------------------------------------------------------------------------
(* C2 *)

\* C2 as stated: one start command for a first state "stopped", none for
\* "pending" or "stopping", the start command precedes the first wait-phase
\* query, and in all three cases the wait phase is entered.
C2_Original ==
    /\ start_cmds <= 1
    /\ (EnsureDone /\ first_state = <<"stopped">>) => start_cmds = 1
    /\ first_state \in {<<"pending">>, <<"stopping">>} => start_cmds = 0
    /\ (wait_queries > 0 /\ first_state = <<"stopped">>) => start_cmds = 1
    /\ (EnsureDone /\ first_state \in {<<"stopped">>, <<"pending">>, <<"stopping">>})
           => wait_queries >= 1

\* C2 (amended): one start command for a first state "stopped", none for
\* "pending" or "stopping"; the start command precedes the first wait-phase
\* query; the wait phase is entered for "pending" and "stopping", and for
\* "stopped" exactly when the start command did not fail.
C2_StartCommands ==
    /\ start_cmds <= 1
    /\ (EnsureDone /\ first_state = <<"stopped">>) => start_cmds = 1
    /\ first_state \in {<<"pending">>, <<"stopping">>} =>
           start_cmds = 0 /\ start_result = "none"
    /\ (wait_queries > 0 /\ first_state = <<"stopped">>) =>
           start_cmds = 1 /\ start_result = "ok"
    /\ (EnsureDone /\ first_state \in {<<"pending">>, <<"stopping">>})
           => wait_queries >= 1
    /\ (EnsureDone /\ first_state = <<"stopped">>)
           => (wait_queries >= 1 <=> start_result = "ok")
    /\ (first_state \in {<<"pending">>, <<"stopping">>} /\ ~EnsureDone)
           => pc \in {"poll_state", "poll_sleep"}
    /\ (first_state = <<"stopped">> /\ ~EnsureDone)
           => pc \in {"start_instances", "poll_state", "poll_sleep"}

C2_Witness ==
    /\ first_state = <<"stopped">>
    /\ start_cmds = 1
    /\ wait_queries = 2
    /\ EnsureSucceeded

----------------------------------------------------------------------------
(* C3 *)

\* C3 as stated: success on wait-phase attempt k (attempt = k - 1) comes
\* after k power-state queries and k - 1 sleeps over the whole call.
C3_Original ==
    (EnsureSucceeded /\ first_state # <<"running">>) =>
        /\ power_queries = attempt + 1
        /\ power_sleeps = attempt

\* C3 (amended): when the state becomes "running" on wait-phase attempt k
\* (1 <= k <= 30, attempt = k - 1), start_instance_if_needed returns after
\* exactly k wait-phase queries, that is k + 1 power-state queries over the
\* whole call counting the first one, and exactly k - 1 sleeps.
C3_PollCounts ==
    (EnsureSucceeded /\ first_state # <<"running">>) =>
        /\ current_state = <<"running">>
        /\ attempt \in 0..29
        /\ wait_queries = attempt + 1
        /\ power_queries = attempt + 2
        /\ power_sleeps = attempt
        /\ power_clock = 10 * attempt

C3_Witness ==
    /\ EnsureSucceeded
    /\ first_state = <<"pending">>
    /\ attempt = 29
    /\ wait_queries = 30

----------------------------------------------------------------------------
(* C4 *)

\* C4 as stated: when no wait-phase attempt observes "running", the call
\* ends in the timeout failure with 30 power-state queries in the whole call.
C4_Original ==
    last_error = "start_timeout" => power_queries = 30

\* C4 (amended): when none of the 30 wait-phase attempts observes "running",
\* the call ends the process with the timeout error and exit status 1, after
\* exactly 30 wait-phase queries, 31 power-state queries in the whole call;
\* the timeout is reported in no other case.
C4_Timeout ==
    /\ (wait_queries = 30 /\ current_state # <<"running">> /\ pc # "poll_sleep")
           => pc = "exited" /\ exit_code = 1 /\ last_error = "start_timeout"
    /\ last_error = "start_timeout" =>
           /\ pc = "exited"
           /\ exit_code = 1
           /\ wait_queries = 30
           /\ power_queries = 31
           /\ current_state # <<"running">>
    /\ wait_queries <= 30

C4_Witness ==
    /\ last_error = "start_timeout"
    /\ first_state = <<"stopped">>
    /\ wait_queries = 30

----------------------------------------------------------------------------
(* C5 *)

\* C5: wait_for_ssm returns on the first attempt k that observes True, after
\* exactly k reachability queries and k - 1 sleeps, and queries no more; when
\* all 30 attempts observe False it ends the process with the timeout error
\* after exactly 30 queries.
C5_SsmPoll ==
    /\ ssm_seen =>
           /\ pc \in {"start_interactive_session", "session", "exited"}
           /\ ssm_attempt \in 0..29
           /\ ssm_queries = ssm_attempt + 1
           /\ ssm_sleeps = ssm_attempt
           /\ last_error # "ssm_timeout"
    /\ pc \in {"start_interactive_session", "session"} => ssm_seen
    /\ (ssm_queries = 30 /\ ~ssm_seen /\ pc # "ssm_sleep")
           => pc = "exited" /\ exit_code = 1 /\ last_error = "ssm_timeout"
    /\ last_error = "ssm_timeout" =>
           /\ pc = "exited"
           /\ exit_code = 1
           /\ ssm_queries = 30
           /\ ~ssm_seen
    /\ ssm_queries <= 30

C5_Witness ==
    /\ ssm_seen
    /\ ssm_attempt = 29
    /\ ssm_queries = 30
    /\ ssm_sleeps = 29
    /\ pc = "session"

----------------------------------------------------------------------------
(* C6 *)

\* C6: when the first power-state query returns a value outside running,
\* stopped, pending, stopping, the process ends at once with exit status 1:
\* no further power-state query, no start command, no sleep, no
\* reachability query and no session.
C6_UnexpectedFirstState ==
    (Queried /\ first_state \notin
         {<<"running">>, <<"stopped">>, <<"pending">>, <<"stopping">>}) =>
        /\ pc = "exited"
        /\ exit_code = 1
        /\ last_error = "unexpected_state"
        /\ power_queries = 1
        /\ start_cmds = 0
        /\ power_sleeps = 0
        /\ ssm_queries = 0
        /\ ssm_sleeps = 0
        /\ "ssm start-session" \notin issued
        /\ ~session

C6_Witness ==
    /\ first_state = <<"terminated">>
    /\ pc = "exited"
    /\ power_queries = 1

----------------------------------------------------------------------------
(* C7 *)

\* C7: once a power-state query (the first one or one of the wait phase) has
\* returned a value outside running, stopped, pending, stopping, no further
\* power-state query is made and the call ends in fatal failure.
C7_UnexpectedNeverRetried ==
    [][(Queried /\ current_state \notin
            {<<"running">>, <<"stopped">>, <<"pending">>, <<"stopping">>})
        => /\ power_queries' = power_queries
           /\ pc' = "exited"
           /\ exit_code' = 1]_vars

----------------------------------------------------------------------------
(* C8 *)

\* C8: when the start command fails, the process ends at once with exit
\* status 1: the start command is not issued again, no wait-phase query and
\* no sleep is made, and neither wait_for_ssm nor the session is started.
C8_StartFailureIsFatal ==
    start_result = "error" =>
        /\ pc = "exited"
        /\ exit_code = 1
        /\ last_error = "start_failed"
        /\ start_cmds = 1
        /\ wait_queries = 0
        /\ power_queries = 1
        /\ power_sleeps = 0
        /\ ssm_queries = 0
        /\ "ssm start-session" \notin issued
        /\ ~session

C8_Witness ==
    start_result = "error" /\ first_state = <<"stopped">> /\ pc = "exited"

----------------------------------------------------------------------------
(* C9 *)

\* C9: the phases are sequential: a reachability query is made only after
\* start_instance_if_needed returned on an observation of "running", and
\* once wait_for_ssm has begun no power-state query and no start command is
\* issued.
C9_PhasesSequential ==
    /\ [](ssm_queries > 0 => (EnsureSucceeded /\ current_state = <<"running">>))
    /\ [](pc \in {"wait_for_ssm", "ssm_sleep"} => current_state = <<"running">>)
    /\ [][SsmPhaseBegun =>
            /\ power_queries' = power_queries
            /\ start_cmds' = start_cmds
            /\ power_sleeps' = power_sleeps
            /\ SsmPhaseBegun']_vars

C9_Witness ==
    /\ ssm_queries = 3
    /\ first_state = <<"stopped">>
    /\ power_queries = 4
    /\ start_cmds = 1

----------------------------------------------------------------------------
(* C10 *)

\* C10: a fatal failure ends the process with a non-zero exit status and
\* nothing runs after it; the session is started only after
\* start_instance_if_needed observed "running" and wait_for_ssm observed
\* True; no run both reports a fatal failure and starts the session, and no
\* stop command is ever issued.
C10_FatalIsFinal ==
    /\ [](last_error # "none" => (pc = "exited" /\ exit_code = 1 /\ ~session))
    /\ [](pc # "exited" <=> exit_code = -1)
    /\ [](session => /\ pc = "session"
                     /\ current_state = <<"running">>
                     /\ ssm_seen
                     /\ last_error = "none")
    /\ []("ssm start-session" \in issued => (current_state = <<"running">> /\ ssm_seen))
    /\ [](issued \subseteq {"aws --version", "sts get-caller-identity",
                            "get-efs-target.py", "ec2 describe-instances",
                            "ec2 start-instances",
                            "ssm describe-instance-information",
                            "ssm start-session"})
    /\ [][pc = "exited" => vars' = vars]_vars

C10_Witness ==
    /\ last_error = "start_timeout"
    /\ start_cmds = 1
    /\ exit_code = 1
    /\ pc = "exited"

----------------------------------------------------------------------------
(* C11 *)

\* The run started on "stopped", saw "running" on wait-phase attempt 3 and
\* saw the instance reachable on attempt 1 of wait_for_ssm
C11_Scenario ==
    /\ first_state = <<"stopped">>
    /\ EnsureSucceeded
    /\ attempt = 2
    /\ ssm_seen
    /\ ssm_attempt = 0

\* C11 as stated: the scenario ends in success with one start command,
\* 3 power-state queries and 1 reachability query.
C11_Original ==
    C11_Scenario =>
        /\ pc \in {"start_interactive_session", "session"} \/ last_error = "session_failed"
        /\ start_cmds = 1
        /\ power_queries = 3
        /\ ssm_queries = 1

\* C11 (amended): the scenario ends with both phases succeeded and the
\* session start reached, after one start command, 4 power-state queries
\* (the first one and 3 in the wait phase) and 1 reachability query.
C11_EndToEnd ==
    C11_Scenario =>
        /\ pc \in {"start_interactive_session", "session"} \/ last_error = "session_failed"
        /\ last_error \in {"none", "session_failed"}
        /\ start_cmds = 1
        /\ start_result = "ok"
        /\ wait_queries = 3
        /\ power_queries = 4
        /\ power_sleeps = 2
        /\ ssm_queries = 1
        /\ ssm_sleeps = 0

C11_Witness == C11_Scenario /\ pc = "session" /\ session

----------------------------------------------------------------------------
(* C12 *)

Terminated == pc \in {"exited", "session"}

\* C12: when every external call returns, each polling phase ends, and it
\* makes at most 30 attempts and at most 30 sleeps of 10 s: the time slept
\* in a phase never exceeds 300 s, whatever the environment answers.
C12_BoundedWait ==
    /\ [](/\ wait_queries <= 30
          /\ power_sleeps <= 30
          /\ power_clock = 10 * power_sleeps
          /\ power_clock <= 300
          /\ ssm_queries <= 30
          /\ ssm_sleeps <= 30
          /\ ssm_clock = 10 * ssm_sleeps
          /\ ssm_clock <= 300)
    /\ (pc \in {"poll_state", "poll_sleep"} ~> (EnsureDone \/ Terminated))
    /\ (pc \in {"wait_for_ssm", "ssm_sleep"} ~>
            (pc = "start_interactive_session" \/ Terminated))
    /\ <>Terminated

C12_Witness ==
    /\ power_clock = 300
    /\ power_sleeps = 30
    /\ wait_queries = 30
    /\ last_error = "start_timeout"

----------------------------------------------------------------------------
(* C17 *)

\* C17: no start command is issued from inside the wait loop, whatever is
\* observed there: a run whose first state is "stopping" never issues one,
\* and when its last poll still sees "stopped" it ends in the timeout
\* failure.
C17_NoStartInWaitPhase ==
    /\ [][(pc \in {"poll_state", "poll_sleep"}) =>
            /\ start_cmds' = start_cmds
            /\ start_result' = start_result]_vars
    /\ [](first_state = <<"stopping">> =>
            (start_cmds = 0 /\ "ec2 start-instances" \notin issued))
    /\ []((/\ first_state = <<"stopping">>
           /\ current_state = <<"stopped">>
           /\ wait_queries = 30
           /\ pc # "poll_sleep")
          => /\ pc = "exited"
             /\ exit_code = 1
             /\ last_error = "start_timeout"
             /\ ssm_queries = 0)

C17_Witness ==
    /\ first_state = <<"stopping">>
    /\ current_state = <<"stopped">>
    /\ last_error = "start_timeout"
    /\ start_cmds = 0

----------------------------------------------------------------------------
(* C18 *)

\* C18: a status query that fails inside a polling loop is not fatal: a
\* failed reachability query is one "not reachable" attempt and a failed
\* wait-phase power-state query (reported as "unknown") is one "not running"
\* attempt; polling goes on with the rest of the budget and a later good
\* observation still gives success.  A failed first power-state query is
\* fatal as an unexpected state.
C18_FailedPollIsOneAttempt ==
    /\ [][(pc = "poll_state" /\ last_rc' # 0) =>
            /\ current_state' = <<"unknown">>
            /\ pc' = "poll_sleep"
            /\ exit_code' = -1
            /\ wait_queries' = wait_queries + 1
            /\ attempt' = attempt]_vars
    /\ [][(pc = "poll_sleep" /\ last_rc # 0 /\ attempt < 29) =>
            /\ pc' = "poll_state"
            /\ exit_code' = -1
            /\ attempt' = attempt + 1]_vars
    /\ [][(pc = "wait_for_ssm" /\ last_rc' # 0) =>
            /\ ~ssm_seen'
            /\ pc' = "ssm_sleep"
            /\ exit_code' = -1
            /\ ssm_queries' = ssm_queries + 1
            /\ ssm_attempt' = ssm_attempt]_vars
    /\ [][(pc = "ssm_sleep" /\ last_rc # 0 /\ ssm_attempt < 29) =>
            /\ pc' = "wait_for_ssm"
            /\ exit_code' = -1
            /\ ssm_attempt' = ssm_attempt + 1]_vars
    /\ []((pc \in {"poll_state", "poll_sleep"} /\ "wait" \in failed_in) =>
            /\ exit_code = -1
            /\ wait_queries = attempt + (IF pc = "poll_sleep" THEN 1 ELSE 0))
    /\ []((pc \in {"wait_for_ssm", "ssm_sleep"} /\ "ssm" \in failed_in) =>
            /\ exit_code = -1
            /\ ssm_queries = ssm_attempt + (IF pc = "ssm_sleep" THEN 1 ELSE 0))
    /\ [](("wait" \in failed_in /\ current_state = <<"running">>) => EnsureSucceeded)
    /\ [](("ssm" \in failed_in /\ ssm_seen) =>
            (pc \in {"start_interactive_session", "session"}
                \/ last_error = "session_failed"))
    /\ []("initial" \in failed_in =>
            /\ first_state = <<"unknown">>
            /\ pc = "exited"
            /\ exit_code = 1
            /\ last_error = "unexpected_state"
            /\ power_queries = 1)

C18_Witness ==
    /\ session
    /\ "wait" \in failed_in
    /\ "ssm" \in failed_in
    /\ wait_queries = 3
    /\ ssm_queries = 3

----------------------------------------------------------------------------
(* build-capacity-env.py: parse_secrets_arn                                *)
(*                                                                         *)
(* A valueFrom string is a sequence of pieces; a piece is the character    *)
(* ":" or a non-empty run of characters without ":".                       *)

\* connet-efs.py is not being run
ProcIdle ==
    /\ pc = "idle"
    /\ utils_names = UtilsNames
    /\ argv = <<>>
    /\ exit_code = -1
    /\ last_error = "none"
    /\ ec2_instance_id = NoText
    /\ current_state = NoText
    /\ first_state = NoText
    /\ attempt = 0
    /\ power_queries = 0
    /\ wait_queries = 0
    /\ start_cmds = 0
    /\ start_result = "none"
    /\ issued = {}
    /\ power_sleeps = 0
    /\ ssm_queries = 0
    /\ ssm_sleeps = 0
    /\ ssm_seen = FALSE
    /\ ssm_attempt = 0
    /\ power_clock = 0
    /\ ssm_clock = 0
    /\ session = FALSE
    /\ last_rc = -1
    /\ failed_in = {}

\* 'arn:aws:secretsmanager:'
SecretsPrefix == <<"arn", ":", "aws", ":", "secretsmanager", ":">>

\* longest tail after the prefix that is tried
MaxTail == 5

TailPieces == {":", "name", "key"}

Tails == UNION {[1..n -> TailPieces] : n \in 0..MaxTail}

\* the arguments tried: None, '', a Parameter Store ARN, and the prefix
\* followed by every tail
ValueFroms ==
    {None, <<>>, <<"arn", ":", "aws", ":", "ssm", ":", "name">>}
        \cup {SecretsPrefix \o t : t \in Tails}

\* str.startswith
startswith(t, prefix) ==
    Len(t) >= Len(prefix) /\ SubSeq(t, 1, Len(prefix)) = prefix

\* '::' in t
HasDoubleColon(t) == \E i \in 1..(Len(t) - 1) : t[i] = ":" /\ t[i + 1] = ":"

\* ':' in t
HasColon(t) == \E i \in 1..Len(t) : t[i] = ":"

\* t.rstrip('::'): the argument is a set of characters, every trailing ":"
\* goes
RECURSIVE rstrip_colons(_)
rstrip_colons(t) ==
    IF t # <<>> /\ t[Len(t)] = ":" THEN rstrip_colons(SubSeq(t, 1, Len(t) - 1))
    ELSE t

\* index of the last ":" of t (t has one)
LastColon(t) == CHOOSE i \in 1..Len(t) :
                    t[i] = ":" /\ \A j \in (i + 1)..Len(t) : t[j] # ":"

\* t.rsplit(':', 1) of a text with a ":"
rsplit_colon(t) ==
    <<SubSeq(t, 1, LastColon(t) - 1), SubSeq(t, LastColon(t) + 1, Len(t))>>

\* parse_secrets_arn(value_from): the pair (secret_arn, field)
parse_secrets_arn(v) ==
    IF v = None \/ v = <<>> THEN <<None, None>>
    ELSE IF ~startswith(v, SecretsPrefix) THEN <<None, None>>
    ELSE IF HasDoubleColon(v) /\ HasColon(rstrip_colons(v))
         THEN LET pair == rsplit_colon(rstrip_colons(v)) IN
              <<pair[1], IF pair[2] # <<>> THEN pair[2] ELSE None>>
         ELSE <<v, None>>

ParseInit ==
    /\ ProcIdle
    /\ EnvIdle
    /\ value_from \in ValueFroms
    /\ parsed = NotParsed

\* the call parse_secrets_arn(secret_value_from) of line 302
ParseCall ==
    /\ parsed = NotParsed
    /\ parsed' = parse_secrets_arn(value_from)
    /\ UNCHANGED <<vars, envVars, value_from>>

ParseNext == ParseCall

ParseSpec == ParseInit /\ [][ParseNext]_<<vars, otherVars>>

----------------------------------------------------------------------------
(* C13 *)

\* a complete secret ARN: the prefix and more, not ending in ":" and
\* without "::"
IsSecretArn(a) ==
    /\ startswith(a, SecretsPrefix)
    /\ Len(a) > Len(SecretsPrefix)
    /\ a[Len(a)] # ":"
    /\ ~HasDoubleColon(a)

\* C13: a Secrets Manager valueFrom that carries no field is taken as a
\* complete secret ARN: with no "::", or with an empty field segment
\* (<secret-arn>:::), the returned field is None and the secret ARN is
\* returned whole; <secret-arn>:<field>:: gives (<secret-arn>, <field>).
C13_NoFieldMeansWholeArn ==
    parsed # NotParsed =>
        /\ (startswith(value_from, SecretsPrefix) /\ ~HasDoubleColon(value_from))
               => parsed = <<value_from, None>>
        /\ \A a \in {SubSeq(value_from, 1, n) : n \in 1..Len(value_from)} :
               /\ (IsSecretArn(a) /\ value_from = a \o <<":", ":", ":">>)
                      => (parsed[2] = None /\ parsed[1] \in {a, value_from})
               /\ \A f \in TailPieces \ {":"} :
                      (IsSecretArn(a) /\ value_from = a \o <<":", f, ":", ":">>)
                          => parsed = <<a, <<f>>>>

----------------------------------------------------------------------------
(* build-capacity-env.py: build_env_file                                   *)
(*                                                                         *)
(* The text of the output file is a sequence of pieces; "\n" ends a line.  *)

\* most entries in the secrets list of the container definition
MaxSecrets == 2

\* a valueFrom with a field, one without and a Parameter Store ARN
FieldValueFrom == SecretsPrefix \o <<"name", ":", "key", ":", ":">>
PlainValueFrom == SecretsPrefix \o <<"name">>
ParamValueFrom == <<"arn", ":", "aws", ":", "ssm", ":", "name">>

\* entries of "secrets"; None stands for a key that is absent
SecretEntries ==
    {[name |-> <<"DB_PASSWORD">>, valueFrom |-> FieldValueFrom],
     [name |-> <<"API_TOKEN">>, valueFrom |-> PlainValueFrom],
     [name |-> <<"PARAM">>, valueFrom |-> ParamValueFrom],
     [name |-> None, valueFrom |-> PlainValueFrom],
     [name |-> <<"NO_SOURCE">>, valueFrom |-> None]}

SecretLists == UNION {[1..n -> SecretEntries] : n \in 0..MaxSecrets}

\* values of "environment"
EnvLists ==
    {<<>>,
     <<[name |-> <<"LOG_LEVEL">>, value |-> <<"info">>]>>,
     <<[name |-> <<"LOG_LEVEL">>, value |-> None]>>}

\* task_def_json by what .get('taskDefinition', {}).get(
\* 'containerDefinitions', []) finds: no such key, [], null, or a list
\* whose first container has the given environment and secrets
TaskDefs ==
    {[containers |-> c] : c \in {"missing", "empty", "null"}}
        \cup {[containers |-> "one", environment |-> e, secrets |-> l] :
                  e \in EnvLists, l \in SecretLists}

\* answers typed at the prompt
Responses == {"y", "Y", "yes", "YES", "Yes", "n", "N", "no", "", " yes", "yeah"}

\* str.lower() on the answers
lower(r) ==
    CASE r = "Y" -> "y"
      [] r \in {"YES", "Yes"} -> "yes"
      [] r = "N" -> "n"
      [] OTHER -> r

\* stdout of get-secret-value --query SecretString --output text
SecretAnswers ==
    {[rc |-> 255, out |-> <<>>],
     [rc |-> 0, out |-> <<>>],
     [rc |-> 0, out |-> <<"None", "\n">>],
     [rc |-> 0, out |-> <<"{\"key\": \"s3cret\"}", "\n">>],
     [rc |-> 0, out |-> <<"{\"other\": \"x\"}", "\n">>],
     [rc |-> 0, out |-> <<"{\"key\": null}", "\n">>],
     [rc |-> 0, out |-> <<"12345", "\n">>],
     [rc |-> 0, out |-> <<"s3cret", "\n">>],
     [rc |-> 0, out |-> <<"line1", "\n", "line2", "\n">>]}

\* json.loads: an object (a function from its keys to their values, None
\* for null), another JSON value, or JSONDecodeError
json_loads(t) ==
    CASE t = <<"{\"key\": \"s3cret\"}">> ->
             [kind |-> "object", fields |-> [k \in {"key"} |-> <<"s3cret">>]]
      [] t = <<"{\"other\": \"x\"}">> ->
             [kind |-> "object", fields |-> [k \in {"other"} |-> <<"x">>]]
      [] t = <<"{\"key\": null}">> ->
             [kind |-> "object", fields |-> [k \in {"key"} |-> None]]
      [] t = <<"12345">> -> [kind |-> "number"]
      [] OTHER -> [kind |-> "JSONDecodeError"]

\* dict.get(key) of an object's fields
dict_get(fields, key) ==
    IF Len(key) = 1 /\ key[1] \in DOMAIN fields THEN fields[key[1]] ELSE None

\* an exception that get_secret_value does not catch
Raised == <<"<AttributeError>">>

\* get_secret_value(secret_arn, json_key) on the answer of the command:
\* the value, None, or Raised
get_secret_value(res, json_key) ==
    IF res.rc # 0 THEN None
    ELSE LET secret_json == strip(res.out) IN
         IF secret_json = <<>> \/ secret_json = <<"None">> THEN None
         ELSE IF json_key = None \/ json_key = <<>> THEN secret_json
         ELSE LET secret_data == json_loads(secret_json) IN
              CASE secret_data.kind = "JSONDecodeError" -> None
                [] secret_data.kind = "object" ->
                       dict_get(secret_data.fields, json_key)
                [] OTHER -> Raised

Header ==
    <<"# Generated .env file from capacity manager task definition", "\n",
      "# Generated on: ", "<now>", "\n",
      "\n">>

Footer == <<"\n", "# End of generated .env file", "\n">>

\* lines 275-282: the lines of the regular environment variables
RECURSIVE EnvLines(_)
EnvLines(l) ==
    IF l = <<>> THEN <<>>
    ELSE LET e == Head(l) IN
         (IF e.name # None /\ e.name # <<>> /\ e.value # None
          THEN e.name \o <<"=">> \o e.value \o <<"\n">>
          ELSE <<>>) \o EnvLines(Tail(l))

\* line 293
IsInvalidEntry(e) ==
    \/ e.name = None \/ e.name = <<>>
    \/ e.valueFrom = None \/ e.valueFrom = <<>>

\* lines 310, 316 and 320
ValueLine(name, value) == name \o <<"=">> \o value \o <<"\n">>
FetchPlaceholder(name) == <<"# ">> \o name \o <<"=<FAILED_TO_FETCH_SECRET>", "\n">>
ParsePlaceholder(name) == <<"# ">> \o name \o <<"=<FAILED_TO_PARSE_SECRET_ARN>", "\n">>

\* Mutation of Accepts: the answer is compared as typed
Accepts_CaseSensitive(r) == r \in {"y", "yes"}

\* line 239
Accepts(r) == lower(r) \in {"y", "yes"}

OldContent == <<"OLD=1", "\n">>

EnvInit ==
    /\ ProcIdle
    /\ ParseIdle
    /\ env_pc = "check_overwrite_file"
    /\ env_exit = -1
    /\ env_error = "none"
    /\ existed \in BOOLEAN
    /\ out_content = IF existed THEN OldContent ELSE <<>>
    /\ response = "<none>"
    /\ dir_state \in (IF existed THEN {"none", "exists"}
                      ELSE {"none", "exists", "missing"})
    /\ dir_created = FALSE
    /\ task_def \in TaskDefs
    /\ sec_idx = 1
    /\ written = <<>>
    /\ fetches = 0

EnvExit(code, msg) ==
    /\ env_pc' = "exited"
    /\ env_exit' = code
    /\ env_error' = msg

EnvGoto(l) ==
    /\ env_pc' = l
    /\ UNCHANGED <<env_exit, env_error>>

\* check_overwrite_file(), called at line 250
check_overwrite_file ==
    /\ env_pc = "check_overwrite_file"
    /\ IF existed
       THEN \E r \in Responses :
              /\ response' = r
              /\ IF ~Accepts(r) THEN EnvExit(0, "none") ELSE EnvGoto("open_output")
       ELSE /\ UNCHANGED response
            /\ EnvGoto("open_output")
    /\ UNCHANGED <<vars, parseVars, existed, out_content, dir_state,
                   dir_created, task_def, sec_idx, written, fetches>>

\* Mutation of OpenOutput: the container definitions are checked before the
\* file is opened
OpenOutput_CheckFirst ==
    /\ env_pc = "open_output"
    /\ IF task_def.containers # "one"
       THEN /\ EnvExit(1, "no_containers")
            /\ UNCHANGED <<out_content, dir_created>>
       ELSE /\ dir_created' = (dir_state = "missing")
            /\ \E ok \in BOOLEAN :
                 IF ~ok
                 THEN /\ EnvExit(1, "write_error")
                      /\ UNCHANGED out_content
                 ELSE /\ out_content' = Header \o EnvLines(task_def.environment)
                      /\ EnvGoto("secrets")
    /\ UNCHANGED <<vars, parseVars, existed, response, dir_state, task_def,
                   sec_idx, written, fetches>>

\* build_env_file(), lines 252-282: the directory, open(output_file, 'w'),
\* the header, the container definitions and the regular variables
OpenOutput ==
    /\ env_pc = "open_output"
    /\ dir_created' = (dir_state = "missing")
    /\ \E ok \in BOOLEAN :
         IF ~ok
         THEN /\ EnvExit(1, "write_error")
              /\ UNCHANGED out_content
         ELSE IF task_def.containers # "one"
         THEN /\ EnvExit(1, "no_containers")
              /\ out_content' = Header
         ELSE /\ out_content' = Header \o EnvLines(task_def.environment)
              /\ EnvGoto("secrets")
    /\ UNCHANGED <<vars, parseVars, existed, response, dir_state, task_def,
                   sec_idx, written, fetches>>

\* build_env_file(), lines 289-320: one entry of secrets
ProcessSecret ==
    /\ env_pc = "secrets"
    /\ sec_idx <= Len(task_def.secrets)
    /\ LET e == task_def.secrets[sec_idx]
           p == parse_secrets_arn(e.valueFrom)
       IN
       IF IsInvalidEntry(e)
       THEN /\ written' = Append(written, <<>>)
            /\ sec_idx' = sec_idx + 1
            /\ EnvGoto("secrets")
            /\ UNCHANGED <<out_content, fetches>>
       ELSE IF p[1] = None \/ p[1] = <<>>
       THEN /\ written' = Append(written, ParsePlaceholder(e.name))
            /\ out_content' = out_content \o ParsePlaceholder(e.name)
            /\ sec_idx' = sec_idx + 1
            /\ EnvGoto("secrets")
            /\ UNCHANGED fetches
       ELSE \E res \in SecretAnswers :
              LET v == get_secret_value(res, p[2])
                  line == IF v = None THEN FetchPlaceholder(e.name)
                          ELSE ValueLine(e.name, v)
              IN
              /\ fetches' = fetches + 1
              /\ IF v = Raised
                 THEN /\ EnvExit(1, "write_error")
                      /\ UNCHANGED <<out_content, written, sec_idx>>
                 ELSE /\ written' = Append(written, line)
                      /\ out_content' = out_content \o line
                      /\ sec_idx' = sec_idx + 1
                      /\ EnvGoto("secrets")
    /\ UNCHANGED <<vars, parseVars, existed, response, dir_state, dir_created,
                   task_def>>

\* build_env_file(), lines 322-330: the footer, and the return to main()
WriteFooter ==
    /\ env_pc = "secrets"
    /\ sec_idx > Len(task_def.secrets)
    /\ out_content' = out_content \o Footer
    /\ EnvGoto("returned")
    /\ UNCHANGED <<vars, parseVars, existed, response, dir_state, dir_created,
                   task_def, sec_idx, written, fetches>>

EnvNext ==
    \/ check_overwrite_file
    \/ OpenOutput
    \/ ProcessSecret
    \/ WriteFooter

EnvSpec == EnvInit /\ [][EnvNext]_<<vars, otherVars>>

\* number of lines of a text
RECURSIVE LineCount(_)
LineCount(t) ==
    IF t = <<>> THEN 0
    ELSE (IF Head(t) = "\n" THEN 1 ELSE 0) + LineCount(Tail(t))

\* the texts of a sequence, one after the other
RECURSIVE Flatten(_)
Flatten(ts) == IF ts = <<>> THEN <<>> ELSE Head(ts) \o Flatten(Tail(ts))

\* the text a run that returns leaves in the file
CompleteFile ==
    Header \o EnvLines(task_def.environment) \o Flatten(written) \o Footer

----------------------------------------------------------------------------
(* C14 *)

\* C14: every secret entry with a name and a valueFrom gives exactly one
\* line of the output, in the order of the task definition: NAME=value when
\* it resolves, else a commented placeholder; an entry without name or
\* valueFrom gives no line; no failure on a secret aborts the run or keeps
\* later entries from being handled.
C14_OneLinePerSecret ==
    /\ \A i \in 1..Len(written) :
         LET e == task_def.secrets[i] IN
         IF IsInvalidEntry(e) THEN written[i] = <<>>
         ELSE /\ LineCount(written[i]) = 1
              /\ \/ written[i] = FetchPlaceholder(e.name)
                 \/ written[i] = ParsePlaceholder(e.name)
                 \/ SubSeq(written[i], 1, Len(e.name) + 1) = e.name \o <<"=">>
    /\ (env_pc = "exited" /\ env_exit = 1) => fetches = 0
    /\ env_pc = "returned" =>
         /\ Len(written) = Len(task_def.secrets)
         /\ out_content = CompleteFile

----------------------------------------------------------------------------
(* C15 *)

\* C15: an output file that exists is changed only after the answer y or
\* yes, in any case of letters; after any other answer the script exits
\* with status 0, the file is as it was, no secret has been fetched and no
\* directory created.
C15_OverwriteNeedsYes ==
    /\ (existed /\ out_content # OldContent) =>
           response # "<none>" /\ lower(response) \in {"y", "yes"}
    /\ (existed /\ response # "<none>" /\ lower(response) \notin {"y", "yes"}) =>
           /\ env_pc = "exited"
           /\ env_exit = 0
           /\ out_content = OldContent
           /\ fetches = 0
           /\ written = <<>>
           /\ ~dir_created
    /\ (existed /\ response # "<none>" /\ lower(response) \in {"y", "yes"}) =>
           ~(env_pc = "exited" /\ env_exit = 0)
    /\ (existed /\ response = "<none>") =>
           env_pc = "check_overwrite_file" /\ out_content = OldContent

C15_Witness ==
    /\ existed
    /\ response = "Yes"
    /\ env_pc = "returned"
    /\ out_content # OldContent
    /\ fetches = 2

----------------------------------------------------------------------------
(* C16 *)

\* C16: the container definitions are looked at only after the file has
\* been opened and the header written: without container definitions the
\* script exits with status 1 and the file, also one that existed and was
\* confirmed, holds the header alone; a run that returns leaves header,
\* entries and footer.
C16_HeaderOnlyWithoutContainers ==
    /\ env_error = "no_containers" =>
           /\ task_def.containers # "one"
           /\ env_pc = "exited"
           /\ env_exit = 1
           /\ out_content = Header
           /\ written = <<>>
    /\ (task_def.containers # "one" /\ env_pc \notin {"check_overwrite_file", "open_output"}) =>
           /\ env_pc = "exited"
           /\ \/ env_error = "no_containers"
              \/ env_error = "write_error" /\ env_exit = 1
                     /\ out_content = (IF existed THEN OldContent ELSE <<>>)
              \/ env_error = "none" /\ env_exit = 0 /\ ~Accepts(response)
                     /\ out_content = OldContent
    /\ env_pc = "returned" =>
           /\ task_def.containers = "one"
           /\ env_exit = -1
           /\ Len(written) = Len(task_def.secrets)
           /\ out_content = CompleteFile
    /\ (env_pc = "secrets" \/ (env_pc = "exited" /\ fetches > 0)) =>
           out_content = Header \o EnvLines(task_def.environment) \o Flatten(written)

C16_Witness ==
    /\ existed
    /\ response = "y"
    /\ task_def.containers = "empty"
    /\ env_error = "no_containers"
    /\ out_content = Header

====
